---- MODULE Spec2Model ----
(***************************************************************************)
(* QuizCraft (src/app.py): the quiz-text parser, the scoring loop and the  *)
(* session state driven by script runs, one run per user interaction.      *)
(*                                                                         *)
(* A Python string is a sequence of one-character strings, so that strip,  *)
(* split, startswith and ord are computed and not assumed.  Python's None  *)
(* is the one-element sequence None, which no text equals.                 *)
(***************************************************************************)
EXTENDS Integers, Sequences, FiniteSets, TLC

VARIABLES
    questions,     \* st.session_state.questions
    user_answers,  \* st.session_state.user_answers
    hints,         \* st.session_state.hints
    submitted,     \* st.session_state.submitted
    page,          \* the widgets the last script run rendered
    last,          \* the interaction that triggered the last run, and how it ended
    raw_in,        \* the completion handed to parse_questions on its own
    parsed         \* the outcome of parse_questions(raw_in)

vars == <<questions, user_answers, hints, submitted, page, last, raw_in, parsed>>

----------------------------------------------------------------------------
(* Bounds of the model *)

\* most question blocks in a completion of the session specification
MaxBlocks == 11
\* most segments (blocks, stray lines, cut blocks) in a completion of the
\* parser specification
MaxSegs == 3

(* Program constants *)

\* [None] * 10
NumSlots == 10
\* lines[i+1] .. lines[i+4]
NumOptions == 4
\* i += 6
BlockLen == 6
\* q["q"][3:]
PrefixLen == 3

----------------------------------------------------------------------------
(* Python strings *)

None == <<"None">>
NL == "\n"

\* the characters of the model in code order: "0" (48) to ":" (58), "A" (65)
\* to "[" (91), and "]" (93) to "z" (122); "GRAVE" stands for the grave accent
\* (96), which a TLA+ string cannot hold
FromDigit0 ==
    << "0", "1", "2", "3", "4", "5", "6", "7", "8", "9", ":" >>
FromUpperA ==
    << "A", "B", "C", "D", "E", "F", "G", "H", "I", "J", "K", "L", "M", "N",
       "O", "P", "Q", "R", "S", "T", "U", "V", "W", "X", "Y", "Z", "[" >>
FromBracket ==
    << "]", "^", "_", "GRAVE", "a", "b", "c", "d", "e", "f", "g", "h", "i", "j",
       "k", "l", "m", "n", "o", "p", "q", "r", "s", "t", "u", "v", "w", "x",
       "y", "z" >>

IndexIn(table, c) == CHOOSE k \in 1..Len(table) : table[k] = c
Has(table, c) == \E k \in 1..Len(table) : table[k] = c

\* ord(c) for a one-character string
Ord(c) ==
    CASE c = NL -> 10
      [] c = " " -> 32
      [] c = "." -> 46
      [] c = "?" -> 63
      [] Has(FromDigit0, c) -> 47 + IndexIn(FromDigit0, c)
      [] Has(FromUpperA, c) -> 64 + IndexIn(FromUpperA, c)
      [] Has(FromBracket, c) -> 92 + IndexIn(FromBracket, c)

IsSpace(c) == c \in {" ", NL}

RECURSIVE LStrip(_)
LStrip(s) ==
    IF s # <<>> /\ IsSpace(Head(s)) THEN LStrip(Tail(s)) ELSE s

RECURSIVE RStrip(_)
RStrip(s) ==
    IF s # <<>> /\ IsSpace(s[Len(s)]) THEN RStrip(SubSeq(s, 1, Len(s) - 1)) ELSE s

\* str.strip() with no argument
Strip(s) == RStrip(LStrip(s))

\* str.split(sep) for a one-character separator: empty fields are kept and
\* a text without the separator is a single field
RECURSIVE Split(_, _)
Split(s, sep) ==
    IF \A k \in 1..Len(s) : s[k] # sep THEN <<s>>
    ELSE LET k == CHOOSE j \in 1..Len(s) :
                      s[j] = sep /\ \A m \in 1..(j - 1) : s[m] # sep
         IN  <<SubSeq(s, 1, k - 1)>> \o Split(SubSeq(s, k + 1, Len(s)), sep)

\* line.startswith("Q")
StartsWithQ(line) == line # <<>> /\ line[1] = "Q"

\* seq[k] for a Python index k that is in range (negative counts from the end)
PyItem(seq, k) == IF k >= 0 THEN seq[k + 1] ELSE seq[Len(seq) + k + 1]
\* whether seq[k] raises IndexError
PyInRange(seq, k) == k >= -Len(seq) /\ k < Len(seq)

----------------------------------------------------------------------------
(* parse_questions *)

\* raw_text.strip().split("\n")
TextLines(raw) == Split(Strip(raw), NL)

\* the answer taken without the final strip()
AnswerOfNoStrip(line) == PyItem(Split(line, ":"), -1)

\* lines[i+5].split(":")[-1].strip()
AnswerOf(line) == Strip(PyItem(Split(line, ":"), -1))

ParseOk(qs) == [err |-> "none", questions |-> qs, oob |-> -1]
\* the IndexError raised by reading lines[k] (0-based) with k >= len(lines);
\* the exception leaves parse_questions, so no question is returned
ParseIndexError(k) == [err |-> "IndexError", questions |-> <<>>, oob |-> k]

\* the while loop, at 0-based position i with qs collected so far
RECURSIVE ParseLoop(_, _, _)
ParseLoop(lines, i, qs) ==
    IF i >= Len(lines) THEN ParseOk(qs)
    ELSE IF StartsWithQ(PyItem(lines, i))
         THEN IF \E k \in 1..(BlockLen - 1) : ~PyInRange(lines, i + k)
              THEN ParseIndexError(Len(lines))
              ELSE ParseLoop(lines, i + BlockLen,
                       Append(qs,
                           [q |-> PyItem(lines, i),
                            options |-> [k \in 1..NumOptions |-> PyItem(lines, i + k)],
                            answer |-> AnswerOf(PyItem(lines, i + NumOptions + 1))]))
         ELSE ParseLoop(lines, i + 1, qs)

parse_questions(raw) == ParseLoop(TextLines(raw), 0, <<>>)

----------------------------------------------------------------------------
(* Completions: the text the model returns for the prompt of generate_quiz *)
(* is described by its segments, and Render writes it out as the text.     *)

\* a question block in the layout the prompt asks for, its answer line
\* holding ans after "Answer: "
Block(ans) == [kind |-> "block", text |-> ans, n |-> NumOptions]
\* a line of its own: a blank line, a preamble, prose between the blocks
Sep(line) == [kind |-> "sep", text |-> line, n |-> 0]
\* a block cut short: its header and the first k of the lines that follow it
Trunc(k) == [kind |-> "trunc", text |-> <<>>, n |-> k]

Digits(num) ==
    LET d(k) == FromDigit0[k + 1]
    IN  IF num < 10 THEN <<d(num)>> ELSE <<d(num \div 10), d(num % 10)>>

\* "Q<num>.W?"
HeaderLine(num) == <<"Q">> \o Digits(num) \o <<".", "W", "?">>
OptionLines == << <<"a", ".">>, <<"b", ".">>, <<"c", ".">>, <<"d", ".">> >>
AnswerLine(ans) == <<"A", "n", "s", "w", "e", "r", ":", " ">> \o ans

\* the lines of a segment whose header, if it has one, carries number num
SegLines(seg, num) ==
    CASE seg.kind = "block" ->
             <<HeaderLine(num)>> \o OptionLines \o <<AnswerLine(seg.text)>>
      [] seg.kind = "trunc" ->
             <<HeaderLine(num)>>
                 \o SubSeq(OptionLines \o <<AnswerLine(<<"b">>)>>, 1, seg.n)
      [] seg.kind = "sep" -> <<seg.text>>

HasHeader(seg) == seg.kind \in {"block", "trunc"}
\* the number of the header of segs[j]: headers are numbered from 1
HeaderNum(segs, j) == Cardinality({m \in 1..j : HasHeader(segs[m])})

RECURSIVE AllLines(_, _)
AllLines(segs, j) ==
    IF j > Len(segs) THEN <<>>
    ELSE SegLines(segs[j], HeaderNum(segs, j)) \o AllLines(segs, j + 1)

RECURSIVE JoinLines(_)
JoinLines(lines) ==
    IF lines = <<>> THEN <<>>
    ELSE IF Len(lines) = 1 THEN lines[1]
    ELSE lines[1] \o <<NL>> \o JoinLines(Tail(lines))

\* response.text
Render(segs) == JoinLines(AllLines(segs, 1))

----------------------------------------------------------------------------
(* The score loop *)

Unknown == <<"U", "n", "k", "n", "o", "w", "n">>
NotAnswered ==
    <<"N", "o", "t", " ", "a", "n", "s", "w", "e", "r", "e", "d">>

\* correct_index = None
NoIndex == [defined |-> FALSE, index |-> 0]

\* the try block: ord() raises TypeError unless the answer is one character,
\* options[correct_index] raises IndexError outside -len .. len-1
CorrectIndex(q) ==
    IF Len(q.answer) # 1 THEN NoIndex
    ELSE LET k == Ord(q.answer[1]) - Ord("a")
         IN  IF PyInRange(q.options, k)
             THEN [defined |-> TRUE, index |-> k]
             ELSE NoIndex

CorrectOption(q) ==
    IF CorrectIndex(q).defined
    THEN PyItem(q.options, CorrectIndex(q).index)
    ELSE Unknown

IsCorrect(q, user_ans) ==
    CorrectIndex(q).defined /\ user_ans = CorrectOption(q)

\* one entry of results; i is idx + 1
ResultRow(q, user_ans, i) ==
    [q_num |-> i,
     question |-> SubSeq(q.q, PrefixLen + 1, Len(q.q)),
     your_answer |-> IF user_ans = None \/ user_ans = <<>>
                     THEN NotAnswered ELSE user_ans,
     correct_answer |-> CorrectOption(q),
     result |-> IsCorrect(q, user_ans)]

\* the loop from question i on; a read of user_answers[idx] past its end
\* raises IndexError outside the try block and ends the run
RECURSIVE ScoreLoop(_, _, _, _, _)
ScoreLoop(qs, answers, i, score, results) ==
    IF i > Len(qs) THEN [err |-> "none", score |-> score, results |-> results]
    ELSE IF i > Len(answers)
         THEN [err |-> "IndexError", score |-> score, results |-> results]
         ELSE ScoreLoop(qs, answers, i + 1,
                  IF IsCorrect(qs[i], answers[i]) THEN score + 1 ELSE score,
                  Append(results, ResultRow(qs[i], answers[i], i)))

Score(qs, answers) == ScoreLoop(qs, answers, 1, 0, <<>>)

----------------------------------------------------------------------------
(* Session state and one script run *)

\* slot lists two longer than the code makes them
EmptySlotsWider == [i \in 1..(NumSlots + 2) |-> None]

\* [None] * 10
EmptySlots == [i \in 1..NumSlots |-> None]

Session(qs, answers, hs, sub) ==
    [questions |-> qs, user_answers |-> answers, hints |-> hs, submitted |-> sub]

\* the state the "not in st.session_state" initialisers create
InitSession == Session(<<>>, EmptySlots, EmptySlots, FALSE)

\* a reset that leaves the hints in place
ResetKeepsHints(s) == Session(<<>>, EmptySlots, s.hints, FALSE)
\* a reset that sizes the slot lists by the emptied questions
ResetResized(s) == Session(<<>>, <<>>, <<>>, FALSE)

\* the four assignments under "Start New Quiz"
ResetSession(s) == Session(<<>>, EmptySlots, EmptySlots, FALSE)

Phase(s) ==
    IF s.submitted THEN "Submitted"
    ELSE IF s.questions = <<>> THEN "Setup" ELSE "Active"

\* an interaction: the widget used and what the user and the completion
\* client supply with it
Click(op, idx, text, segs, topic, ok) ==
    [op |-> op, idx |-> idx, text |-> text, segs |-> segs, topic |-> topic,
     ok |-> ok]

\* "if not questions and not submitted": the topic and difficulty inputs and
\* the Generate Quiz button; generate_quiz and parse_questions run when the
\* button was pressed with a topic, and an exception of either ends the run
\* before the assignment
\* a generate whose result is never stored
AfterParseDropped(s, r) == [s |-> s, err |-> r.err, setup |-> TRUE]

\* the assignment of the parsed questions, r being what parse_questions gave
AfterParse(s, r) ==
    IF r.err # "none" THEN [s |-> s, err |-> r.err, setup |-> TRUE]
    ELSE [s |-> [s EXCEPT !.questions = r.questions], err |-> "none",
          setup |-> TRUE]

SetupBlock(s, c) ==
    IF s.questions = <<>> /\ ~s.submitted
    THEN IF c.op = "generate" /\ c.topic # <<>>
         THEN IF ~c.ok
              THEN [s |-> s, err |-> "GenerationError", setup |-> TRUE]
              ELSE AfterParse(s, parse_questions(Render(c.segs)))
         ELSE [s |-> s, err |-> "none", setup |-> TRUE]
    ELSE [s |-> s, err |-> "none", setup |-> FALSE]

\* whether a read or write of slots[i - 1] succeeds, i being idx + 1
SlotExists(slots, i) == i <= Len(slots)

Stop(s, err, btns, radios) ==
    [s |-> s, err |-> err, btns |-> btns, radios |-> radios]

\* the hint handler of question i: the completion call, then
\* hints[idx] = response.text.strip()
HintStore(s, c, i) == [s EXCEPT !.hints[i] = Strip(c.text)]

\* what st.radio returns for question i: the option just chosen, or the one
\* its index argument points at
Selected(s, c, i) ==
    IF c.op = "select" /\ c.idx = i THEN c.text ELSE s.user_answers[i]

\* q["options"].index(user_answers[idx]) raises ValueError
NotAnOption(q, ans) ==
    ans # None /\ \A k \in 1..Len(q.options) : q.options[k] # ans

\* the for loop from question i (idx + 1) on: the hint button and its
\* handler, the radio and the store of its value, the read of hints[idx]
RECURSIVE RenderLoop(_, _, _)
RECURSIVE RenderRadio(_, _, _)
RECURSIVE RenderHintLine(_, _, _)

RenderLoop(s, c, i) ==
    IF i > Len(s.questions) THEN Stop(s, "none", i - 1, i - 1)
    ELSE IF c.op = "hint" /\ c.idx = i
         THEN IF ~c.ok THEN Stop(s, "GenerationError", i, i - 1)
              ELSE IF ~SlotExists(s.hints, i) THEN Stop(s, "IndexError", i, i - 1)
              ELSE RenderRadio(HintStore(s, c, i), c, i)
         ELSE RenderRadio(s, c, i)

RenderRadio(s, c, i) ==
    IF ~SlotExists(s.user_answers, i) THEN Stop(s, "IndexError", i, i - 1)
    ELSE IF NotAnOption(s.questions[i], s.user_answers[i])
         THEN Stop(s, "ValueError", i, i - 1)
         ELSE RenderHintLine([s EXCEPT !.user_answers[i] = Selected(s, c, i)], c, i)

RenderHintLine(s, c, i) ==
    IF ~SlotExists(s.hints, i) THEN Stop(s, "IndexError", i, i)
    ELSE RenderLoop(s, c, i + 1)

\* the quiz shown whether or not it was submitted
ShowsQuizIgnoringSubmitted(s) == s.questions # <<>>

\* "if questions and not submitted"
ShowsQuiz(s) == s.questions # <<>> /\ ~s.submitted

\* the Submit Quiz button, reached when the loop r ended without exception
AfterLoop(r, c) ==
    IF r.err # "none"
    THEN [s |-> r.s, err |-> r.err, btns |-> r.btns, radios |-> r.radios,
          submit |-> FALSE]
    ELSE [s |-> IF c.op = "submit" THEN [r.s EXCEPT !.submitted = TRUE] ELSE r.s,
          err |-> "none", btns |-> r.btns, radios |-> r.radios, submit |-> TRUE]

\* the quiz block: the loop, then the Submit Quiz button
QuizBlock(s, c) ==
    IF ShowsQuiz(s) THEN AfterLoop(RenderLoop(s, c, 1), c)
    ELSE [s |-> s, err |-> "none", btns |-> 0, radios |-> 0, submit |-> FALSE]

\* the score having been computed as sc: the analysis, then the Start New
\* Quiz button
AfterScore(s, c, sc) ==
    IF sc.err # "none" THEN [s |-> s, err |-> sc.err, results |-> FALSE]
    ELSE [s |-> IF c.op = "reset" THEN ResetSession(s) ELSE s,
          err |-> "none", results |-> TRUE]

\* "if submitted"
ScoreBlock(s, c) ==
    IF s.submitted THEN AfterScore(s, c, Score(s.questions, s.user_answers))
    ELSE [s |-> s, err |-> "none", results |-> FALSE]

Page(setup, btns, radios, submit, results) ==
    [setup |-> setup, btns |-> btns, radios |-> radios, submit |-> submit,
     results |-> results]

\* one run of the script from top to bottom, a, b and d being the outcomes
\* of its three blocks; an uncaught exception ends the run and keeps what
\* was stored and rendered before it
RunEnd(a, b, d) ==
    [s |-> d.s, err |-> d.err,
     page |-> Page(a.setup, b.btns, b.radios, b.submit, d.results)]

RunFromQuiz(a, b, c) ==
    IF b.err # "none"
    THEN [s |-> b.s, err |-> b.err,
          page |-> Page(a.setup, b.btns, b.radios, FALSE, FALSE)]
    ELSE RunEnd(a, b, ScoreBlock(b.s, c))

RunFromSetup(a, c) ==
    IF a.err # "none"
    THEN [s |-> a.s, err |-> a.err, page |-> Page(a.setup, 0, 0, FALSE, FALSE)]
    ELSE RunFromQuiz(a, QuizBlock(a.s, c), c)

Run(s, c) == RunFromSetup(SetupBlock(s, c), c)

----------------------------------------------------------------------------
(* Inputs *)

Letters == << <<"a">>, <<"b">>, <<"c">>, <<"d">> >>

\* n blocks in the requested layout, their answers running a, b, c, d, a, ...
Quiz(n) == [j \in 1..n |-> Block(Letters[((j - 1) % NumOptions) + 1])]

\* what may stand after "Answer: ": a letter of a-d, a letter past d, an
\* upper-case letter, the characters just below "a", nothing, two letters
AnswerTexts ==
    { <<"b">>, <<"d">>, <<"e">>, <<"z">>, <<"B">>, <<"GRAVE">>, <<"_">>,
      <<"]">>, <<"[">>, <<>>, <<"a", "b">> }

\* the completions of the session specification
SessionCompletions ==
    { Quiz(n) : n \in 0..MaxBlocks }
        \cup { <<Block(a)>> : a \in AnswerTexts }
        \cup { <<Trunc(2)>>, <<Sep(<<"N", "o">>)>>, <<Sep(<<" ", "Q">>), Block(<<"b">>)>> }

Topics == { <<>>, <<"P", "y">> }
HintTexts == { <<"h", "1">>, <<" ", "h", "2", NL>> }

\* the questions the user touches: the first, the last that has a slot, and
\* the first that has none
ProbeIdx == {1, NumSlots, NumSlots + 1}

NoClick == Click("none", 0, <<>>, <<>>, <<>>, TRUE)

Last(c, from, err) ==
    [op |-> c.op, idx |-> c.idx, text |-> c.text, segs |-> c.segs,
     topic |-> c.topic, ok |-> c.ok, from |-> from, err |-> err]

\* parse_questions has not run
Pending == [err |-> "pending", questions |-> <<>>, oob |-> -1]

Current == Session(questions, user_answers, hints, submitted)

----------------------------------------------------------------------------
(* The session specification: one action per widget *)

\* the page the first run of the script renders in a new session
FirstPage == Page(TRUE, 0, 0, FALSE, FALSE)

\* the state after the first run of the script in a new session
Init ==
    /\ questions = InitSession.questions
    /\ user_answers = InitSession.user_answers
    /\ hints = InitSession.hints
    /\ submitted = InitSession.submitted
    /\ page = FirstPage
    /\ last = Last(NoClick, "Setup", "none")
    /\ raw_in = <<>>
    /\ parsed = Pending

\* the outcome r of the rerun that the interaction c triggered
Apply(r, c, from) ==
    /\ questions' = r.s.questions
    /\ user_answers' = r.s.user_answers
    /\ hints' = r.s.hints
    /\ submitted' = r.s.submitted
    /\ page' = r.page
    /\ last' = Last(c, from, r.err)
    /\ UNCHANGED <<raw_in, parsed>>

Step(c) == Apply(Run(Current, c), c, Phase(Current))

\* a press of a button whose handler the rerun does not reach
Press(op, i) == Click(op, i, <<>>, <<>>, <<>>, TRUE)

\* the presses of Generate Quiz: with a topic and the completion returned,
\* with a topic and a completion call that raises (ok = FALSE), without topic
GenerateClicks(s) ==
    IF Phase(s) = "Setup"
    THEN { Click("generate", 0, <<>>, segs, <<"P", "y">>, TRUE) :
               segs \in SessionCompletions }
             \cup { Click("generate", 0, <<>>, <<>>, <<"P", "y">>, FALSE),
                    Click("generate", 0, <<>>, <<>>, <<>>, TRUE) }
    ELSE { Press("generate", 0) }

\* the presses of the Hint button of question i, with the completion returned
HintClicks(s, i) ==
    IF Phase(s) = "Active"
    THEN { Click("hint", i, h, <<>>, <<>>, TRUE) : h \in HintTexts }
             \cup { Click("hint", i, <<>>, <<>>, <<>>, FALSE) }
    ELSE { Press("hint", i) }

\* the choices of the radio of question i
SelectClicks(s, i) ==
    { Click("select", i, s.questions[i].options[k], <<>>, <<>>, TRUE) :
          k \in 1..NumOptions }

Generate ==
    /\ page.setup
    /\ \E c \in GenerateClicks(Current) : Step(c)

\* a change of the topic or of the difficulty, which reruns the script
EditSetupInput ==
    /\ page.setup
    /\ Step(Press("edit", 0))

Hint ==
    \E i \in ProbeIdx :
        /\ i <= page.btns
        /\ \E c \in HintClicks(Current, i) : Step(c)

Select ==
    \E i \in ProbeIdx :
        /\ i <= page.radios
        /\ \E c \in SelectClicks(Current, i) : Step(c)

\* the Submit Quiz button
Submit ==
    /\ page.submit
    /\ Step(Press("submit", 0))

\* the Start New Quiz button
StartNewQuiz ==
    /\ page.results
    /\ Step(Press("reset", 0))

Next ==
    \/ Generate
    \/ EditSetupInput
    \/ Hint
    \/ Select
    \/ Submit
    \/ StartNewQuiz

Spec == Init /\ [][Next]_vars

----------------------------------------------------------------------------
(* The parser specification: parse_questions applied to a completion *)

PureSegs ==
    { Block(a) : a \in { <<"b">>, <<"z">>, <<"_">>, <<>>, <<"a", "b">> } }
        \cup { Sep(<<>>), Sep(<<" ">>), Sep(<<"N", "o">>), Sep(<<" ", "Q">>) }
        \cup { Trunc(0), Trunc(2), Trunc(4) }

PureInputs ==
    UNION { [1..k -> PureSegs] : k \in 0..MaxSegs }
        \cup { Quiz(NumSlots), Quiz(NumSlots + 1) }

InitParse ==
    /\ questions = InitSession.questions
    /\ user_answers = InitSession.user_answers
    /\ hints = InitSession.hints
    /\ submitted = InitSession.submitted
    /\ page = FirstPage
    /\ last = Last(NoClick, "Setup", "none")
    /\ raw_in \in PureInputs
    /\ parsed = Pending

Parse ==
    /\ parsed = Pending
    /\ parsed' = parse_questions(Render(raw_in))
    /\ UNCHANGED <<questions, user_answers, hints, submitted, page, last, raw_in>>

NextParse == Parse

SpecParse == InitParse /\ [][NextParse]_vars

----------------------------------------------------------------------------
(* Properties of the score loop *)

IsLetterAD(ans) == \E k \in 1..Len(Letters) : Letters[k] = ans
\* answerLetter - 'a', counted from 1
LetterPos(ans) == CHOOSE k \in 1..Len(Letters) : Letters[k] = ans

Shown == Score(questions, user_answers)

\* C1: in the score loop, for every question i and every stored selection,
\* the row is marked correct exactly when the answer is one of a, b, c, d and
\* user_answers[i] equals options[answer - 'a']; any other answer string
\* gives an incorrect row whatever was selected.
C1_CorrectIffLetterMatches ==
    submitted =>
        /\ Shown.err = "none"
        /\ \A i \in 1..Len(questions) :
               Shown.results[i].result
                   <=> /\ IsLetterAD(questions[i].answer)
                       /\ user_answers[i]
                              = questions[i].options[LetterPos(questions[i].answer)]

\* C7: the score loop never ends in an exception, and every question whose
\* answer is not one of a, b, c, d gets the correct option "Unknown" and an
\* incorrect row.
C7_UnknownOutsideAD ==
    submitted =>
        /\ Shown.err = "none"
        /\ \A i \in 1..Len(questions) :
               ~IsLetterAD(questions[i].answer)
                   => /\ Shown.results[i].correct_answer = Unknown
                      /\ ~Shown.results[i].result

\* the one-character answers just below "a", which index options from its end
WrapsAround(ans) ==
    Len(ans) = 1 /\ Ord(ans[1]) - Ord("a") \in (-NumOptions)..(-1)

\* What the score loop does satisfy: the statements of C1 and C7 hold for
\* every question whose answer is not a character with code 93 to 96, and
\* such an answer is scored against options[code - 97 + 4].
ScoreOutsideWrapAround ==
    submitted =>
        \A i \in 1..Len(questions) :
            IF WrapsAround(questions[i].answer)
            THEN /\ Shown.results[i].correct_answer
                        = questions[i].options[Ord(questions[i].answer[1]) - 92]
                 /\ Shown.results[i].result
                        <=> user_answers[i] = Shown.results[i].correct_answer
            ELSE /\ Shown.results[i].result
                        <=> /\ IsLetterAD(questions[i].answer)
                            /\ user_answers[i]
                                   = questions[i].options[LetterPos(questions[i].answer)]
                 /\ ~IsLetterAD(questions[i].answer)
                        => /\ Shown.results[i].correct_answer = Unknown
                           /\ ~Shown.results[i].result

\* C10: a submitted session has between 1 and 10 questions and its score is
\* between 0 and the number of questions; with more than 10 questions every
\* run ends in an exception before the Submit Quiz button is rendered.
C10_SubmittedWithinSlots ==
    /\ submitted =>
           /\ Len(questions) \in 1..NumSlots
           /\ Shown.err = "none"
           /\ Shown.score \in 0..Len(questions)
           /\ Len(Shown.results) = Len(questions)
    /\ Len(questions) > NumSlots =>
           /\ ~submitted
           /\ ~page.submit
           /\ last.err = "IndexError" \/ (last.err = "GenerationError" /\ ~last.ok)

C10_Witness ==
    /\ submitted
    /\ Len(questions) = NumSlots
    /\ Shown.score >= 1

----------------------------------------------------------------------------
(* Properties of the session *)

AllUnset(slots) == \A i \in 1..Len(slots) : slots[i] = None

\* C3 as stated: user_answers and hints are as long as questions, in every
\* reachable state.
C3_SlotsMatchQuestions ==
    /\ Len(user_answers) = Len(questions)
    /\ Len(hints) = Len(questions)

\* C3 as amended: user_answers and hints have exactly 10 slots each in every
\* reachable state, whatever the number of questions.
C3_SlotsAlwaysTen ==
    /\ Len(user_answers) = NumSlots
    /\ Len(hints) = NumSlots

C3_Witness ==
    /\ last.op = "reset"
    /\ last.from = "Submitted"
    /\ Len(questions) = 0
    /\ Len(user_answers) = NumSlots
    /\ Len(hints) = NumSlots

\* C4: while submitted is true no step changes questions, user_answers or
\* hints, and submitted becomes false only in a step of the reset, which
\* empties questions in that step.
C4_SubmittedLeftOnlyByReset ==
    [][submitted =>
          \/ /\ submitted'
             /\ questions' = questions
             /\ user_answers' = user_answers
             /\ hints' = hints
          \/ /\ last'.op = "reset"
             /\ ~submitted'
             /\ questions' = <<>>]_vars

C4_Witness ==
    /\ submitted
    /\ last.from = "Submitted"
    /\ last.op \in {"select", "hint", "generate", "submit"}

\* the last run was a press of Generate Quiz in Setup with a topic, whose
\* completion came back and was accepted by parse_questions
GeneratedAccepted ==
    /\ last.op = "generate"
    /\ last.from = "Setup"
    /\ last.topic # <<>>
    /\ last.ok
    /\ parse_questions(Render(last.segs)).err = "none"

GenerateLeftActive ==
    /\ questions = parse_questions(Render(last.segs)).questions
    /\ questions # <<>>
    /\ ~submitted
    /\ AllUnset(user_answers)
    /\ AllUnset(hints)

\* C5 as stated: a generate with a topic in Setup whose completion the
\* parser accepts leaves the session Active, with the parsed questions,
\* which are not empty, and every answer and hint unset.
C5_GenerateMovesToActive == GeneratedAccepted => GenerateLeftActive

\* C5 as amended: the same, for the completions from which the parser
\* returns at least one question.
C5_GenerateWithQuestionsMovesToActive ==
    (GeneratedAccepted /\ parse_questions(Render(last.segs)).questions # <<>>)
        => GenerateLeftActive

C5_Witness ==
    /\ GeneratedAccepted
    /\ Len(questions) = NumSlots
    /\ AllUnset(user_answers)

\* C6: after a press of Start New Quiz the session equals the state created
\* at session start; this holds for the press in a Submitted state and for a
\* second press after it.
C6_ResetRestoresInitial ==
    last.op = "reset" =>
        /\ questions = <<>>
        /\ user_answers = [i \in 1..NumSlots |-> None]
        /\ hints = [i \in 1..NumSlots |-> None]
        /\ submitted = FALSE
        /\ Current = InitSession

C6_Witness ==
    /\ last.op = "reset"
    /\ last.from = "Setup"
    /\ Current = InitSession

\* C9: a hint request for question i of an Active session whose completion
\* returns h leaves hints[i] = h trimmed (so the later of two requests wins)
\* and changes no other hint slot, nor questions, nor submitted.
C9_HintOverwrites ==
    [][(last'.op = "hint" /\ last'.from = "Active" /\ last'.ok)
          => /\ last'.idx \in DOMAIN hints'
             /\ hints'[last'.idx] = Strip(last'.text)
             /\ \A j \in DOMAIN hints : j # last'.idx => hints'[j] = hints[j]
             /\ questions' = questions
             /\ submitted' = submitted]_vars

\* What the hint handler does satisfy: the statement of C9 for the questions
\* that have a slot, and no change of the state for the others.
HintOverwritesWithinSlots ==
    [][(last'.op = "hint" /\ last'.from = "Active" /\ last'.ok)
          => /\ questions' = questions
             /\ submitted' = submitted
             /\ \A j \in DOMAIN hints : j # last'.idx => hints'[j] = hints[j]
             /\ IF last'.idx <= NumSlots
                THEN hints'[last'.idx] = Strip(last'.text)
                ELSE hints' = hints /\ last'.err = "IndexError"]_vars

----------------------------------------------------------------------------
(* Properties of parse_questions *)

LinesIn == TextLines(Render(raw_in))

\* some line starting with "Q" has fewer than 5 lines after it
TruncatedBlock ==
    \E i \in 1..Len(LinesIn) :
        StartsWithQ(LinesIn[i]) /\ Len(LinesIn) - i < BlockLen - 1

\* C2: on a text with a truncated block parse_questions ends with a
\* ParseError and reads no line at or past the end of the lines.
C2_TruncatedGivesParseError ==
    (parsed # Pending /\ TruncatedBlock)
        => /\ parsed.err = "ParseError"
           /\ parsed.oob = -1

\* What parse_questions does satisfy on a truncated block: it raises
\* IndexError at the first index past the end, and returns nothing.
TruncatedRaisesIndexError ==
    (parsed # Pending /\ TruncatedBlock /\ parsed.err # "none")
        => /\ parsed.err = "IndexError"
           /\ parsed.oob = Len(LinesIn)
           /\ parsed.questions = <<>>

IsLetter(c) ==
    \/ \E k \in 1..(Len(FromUpperA) - 1) : FromUpperA[k] = c
    \/ \E k \in 5..Len(FromBracket) : FromBracket[k] = c

WellFormedSeg(seg) ==
    \/ seg.kind = "block" /\ Len(seg.text) = 1 /\ IsLetter(seg.text[1])
    \/ seg.kind = "sep" /\ ~StartsWithQ(seg.text)

WellFormedText(segs) == \A j \in 1..Len(segs) : WellFormedSeg(segs[j])

\* the questions a text of well-formed blocks stands for, in order
RECURSIVE ExpectedFrom(_, _)
ExpectedFrom(segs, j) ==
    IF j > Len(segs) THEN <<>>
    ELSE IF segs[j].kind = "block"
         THEN << [q |-> HeaderLine(HeaderNum(segs, j)),
                  options |-> OptionLines,
                  answer |-> segs[j].text] >> \o ExpectedFrom(segs, j + 1)
         ELSE ExpectedFrom(segs, j + 1)

\* the first line that is not blank is white space followed by "Q": it does
\* not start with "Q", and does once the whole text is stripped
StripExposesHeader(segs) ==
    \E j \in 1..Len(AllLines(segs, 1)) :
        /\ \A m \in 1..(j - 1) : LStrip(AllLines(segs, 1)[m]) = <<>>
        /\ ~StartsWithQ(AllLines(segs, 1)[j])
        /\ StartsWithQ(LStrip(AllLines(segs, 1)[j]))

ParsedAsWritten ==
    /\ parsed.err = "none"
    /\ parsed.oob = -1
    /\ parsed.questions = ExpectedFrom(raw_in, 1)

\* C8 as stated: a text of n well-formed blocks, with lines not starting
\* with "Q" before, between and after them, parses to exactly its n
\* questions in order: header, the 4 option lines, the trimmed answer.
C8_WellFormedParses ==
    (parsed # Pending /\ WellFormedText(raw_in)) => ParsedAsWritten

\* C8 as amended: the same, unless the first non-blank line of the text is
\* white space followed by "Q".
C8_WellFormedParsesAfterStrip ==
    (parsed # Pending /\ WellFormedText(raw_in) /\ ~StripExposesHeader(raw_in))
        => ParsedAsWritten

C8_Witness ==
    /\ parsed # Pending
    /\ WellFormedText(raw_in)
    /\ ~StripExposesHeader(raw_in)
    /\ Len(parsed.questions) = 2
    /\ \E j \in 1..Len(raw_in) : raw_in[j].kind = "sep"

====
